---- MODULE Spec2Model ----
(***************************************************************************)
(* Client synchronizer of the poker web client: the zustand game store     *)
(* (store/gameStore.ts) and the useWebSocket hook that feeds server events *)
(* into it (hooks/useWebSocket.ts).                                        *)
(*                                                                         *)
(* Conventions.  A nullable value (T | null, or an optional field) is a    *)
(* sequence of length at most one: None for null/undefined, Some(x) for x. *)
(* String-typed slots that may hold null or be absent use the sentinels    *)
(* NULL and UNDEFINED.  Text is a sequence of characters, so that string   *)
(* concatenation is \o.  JavaScript arrays are 0-based: element idx of an  *)
(* array is element idx + 1 of the sequence that models it.                *)
(***************************************************************************)
EXTENDS Integers, Sequences, FiniteSets, TLC

VARIABLES
    store,            \* the zustand store state (gameStore.ts)
    wsRef,            \* useWebSocket: wsRef.current, None or Some(socket)
    hasConnectedRef,  \* useWebSocket: hasConnectedRef.current
    sockets,          \* readyState of every WebSocket the hook has created
    effect,           \* React: "run" once the connection effect has run and its
                      \*   cleanup is due, "cleaned" once that cleanup has run
    lastEv,           \* history: the handler that ran last, with its input
    prev,             \* history: the store as that handler found it
    tokenLog,         \* history: per actor, the token texts the hook has handled
                      \*   since that actor's latest thinking_start (None if a
                      \*   game_state or hand_complete came after it, or none)
    nEvents,          \* history: number of handler runs so far
    moves,            \* history: player_action messages transmitted since the
                      \*   latest turn-granting event
    panel,            \* ActionPanel: None while it is not mounted, else
                      \*   Some of its raiseAmount and showRaiseSlider
    up,               \* messages the client has sent that the server has not read
    down,             \* events the session's server has sent, not yet delivered
    server,           \* the session's server: its phase, the actor it waits
                      \*   for, the turns played and what it emitted this turn
    batcher,          \* a TokenBatcher: its _buffer and _last_flush
    clock,            \* time.time() in milliseconds
    batchLog,         \* history: tokens fed to the batcher, payloads it has
                      \*   broadcast, when the oldest buffered character was
                      \*   added, and the call that ran last
    manager,          \* the GameSessionManager: its _sessions and _lock
    got               \* history: what the last get_session returned

vars == <<store, wsRef, hasConnectedRef, sockets, effect, lastEv, prev, tokenLog,
          nEvents, moves, panel, up, down, server, batcher, clock, batchLog,
          manager, got>>
hookVars == <<wsRef, hasConnectedRef, sockets, effect>>
clientVars == <<store, hookVars, lastEv, prev, tokenLog, nEvents, moves, panel>>
batcherVars == <<batcher, clock, batchLog>>
managerVars == <<manager, got>>
\* What no handler of the client touches.
serverSide == <<server, batcherVars, managerVars>>

None == <<>>
Some(x) == <<x>>
NULL == "null"
UNDEFINED == "undefined"

(***************************************************************************)
(* Bounds of the model.                                                    *)
(***************************************************************************)
NumPlayers == 3      \* seats at the table, seat 0 is the human
MaxEvents == 4       \* handler runs explored per behaviour
MaxSockets == 3      \* WebSockets the hook creates per behaviour
MaxProtocolEvents == 10  \* handler runs explored when the server drives the events
MaxTurns == 2        \* turns the server plays per behaviour
MaxPerTurn == 1      \* timer ticks or token events the server emits per turn
MaxFed == 4          \* tokens fed to the batcher per behaviour
MaxClock == 120      \* milliseconds of time.time() explored

Players == 0 .. (NumPlayers - 1)
LLMPlayers == 1 .. (NumPlayers - 1)
Sockets == 1 .. MaxSockets

(***************************************************************************)
(* JavaScript helpers.                                                     *)
(***************************************************************************)
\* arr[idx] ?? dflt for a number[]: only an index past the end is nullish
\* (0 is a value, not a nullish one).
NumOr(arr, idx, dflt) == IF idx + 1 \in DOMAIN arr THEN arr[idx + 1] ELSE dflt

\* arr[idx] ?? dflt for a (string | null)[]: an index past the end and an
\* element null are both nullish.
StrOr(arr, idx, dflt) ==
    IF idx + 1 \in DOMAIN arr /\ arr[idx + 1] # NULL THEN arr[idx + 1] ELSE dflt

\* { ...m, [k]: v } on a Record<number, T>
Put(m, k, v) == [q \in (DOMAIN m) \cup {k} |-> IF q = k THEN v ELSE m[q]]

\* {} as a Record<number, T>
EmptyRecord == [q \in {} |-> None]

(***************************************************************************)
(* store/gameStore.ts: the store's state and its reducers.  Every reducer  *)
(* takes the store state and returns the state after set(...).             *)
(***************************************************************************)
initialState ==
    [ sessionId         |-> None,
      isConnected       |-> FALSE,
      connectionError   |-> NULL,
      gameState         |-> None,
      thinkingStreams   |-> EmptyRecord,
      reasoningHistory  |-> EmptyRecord,
      timer             |-> None,
      handComplete      |-> None,
      isMyTurn          |-> FALSE,
      availableActions  |-> None,
      lastActions       |-> <<>> ]

setSessionId(state, id) == [state EXCEPT !.sessionId = id]

setConnected(state, connected) == [state EXCEPT !.isConnected = connected]

setConnectionError(state, error) == [state EXCEPT !.connectionError = error]

setGameState(state, gs) ==
    [state EXCEPT !.gameState = Some(gs),
                  !.isMyTurn = (gs.current_actor = Some(0)),
                  !.availableActions = gs.available_actions]

updatedPlayers(gs, update) ==
    [i \in DOMAIN gs.players |->
        LET player == gs.players[i]
            idx == i - 1
        IN  [player EXCEPT
               !.stack = NumOr(update.player_stacks, idx, player.stack),
               !.current_bet = NumOr(update.player_bets, idx, player.current_bet),
               !.last_action = StrOr(update.last_actions, idx, player.last_action)]]

updateGameState(state, update) ==
    IF state.gameState = None THEN state
    ELSE LET gs == state.gameState[1] IN
         [state EXCEPT
            !.gameState = Some([gs EXCEPT
                                  !.hand_number = update.hand_number,
                                  !.street = update.street,
                                  !.pot = update.pot,
                                  !.current_actor = update.current_actor,
                                  !.community_cards = update.community_cards,
                                  !.players = updatedPlayers(gs, update),
                                  !.available_actions = update.available_actions]),
            !.isMyTurn = (update.current_actor = Some(0)),
            !.availableActions = update.available_actions,
            !.lastActions = update.last_actions]

setMyTurn(state, isMyTurn, actions) ==
    [state EXCEPT !.isMyTurn = isMyTurn, !.availableActions = actions]

\* Mutant of startThinking: an accumulator the actor already has is kept.
startThinking_KeepExisting(state, playerId, playerName, now) ==
    IF playerId \in DOMAIN state.thinkingStreams THEN state
    ELSE [state EXCEPT
            !.thinkingStreams =
                Put(state.thinkingStreams, playerId,
                    [playerId |-> playerId, isActive |-> TRUE, tokens |-> <<>>,
                     parsedAction |-> None, startTime |-> now]),
            !.reasoningHistory =
                Put(state.reasoningHistory, playerId,
                    IF playerId \in DOMAIN state.reasoningHistory
                    THEN state.reasoningHistory[playerId]
                    ELSE [playerId |-> playerId, playerName |-> playerName,
                          entries |-> <<>>, isExpanded |-> TRUE])]

startThinking(state, playerId, playerName, now) ==
    LET existingHistory == IF playerId \in DOMAIN state.reasoningHistory
                           THEN Some(state.reasoningHistory[playerId]) ELSE None
        updatedHistory == IF existingHistory # None THEN existingHistory[1]
                          ELSE [playerId |-> playerId, playerName |-> playerName,
                                entries |-> <<>>, isExpanded |-> TRUE]
    IN  [state EXCEPT
           !.thinkingStreams =
               Put(state.thinkingStreams, playerId,
                   [playerId |-> playerId, isActive |-> TRUE, tokens |-> <<>>,
                    parsedAction |-> None, startTime |-> now]),
           !.reasoningHistory = Put(state.reasoningHistory, playerId, updatedHistory)]

\* Mutant of addThinkingToken: the token is put in front of the text.
addThinkingToken_Prepend(state, playerId, token) ==
    IF playerId \notin DOMAIN state.thinkingStreams THEN state
    ELSE LET stream == state.thinkingStreams[playerId] IN
         [state EXCEPT
            !.thinkingStreams =
                Put(state.thinkingStreams, playerId,
                    [stream EXCEPT !.tokens = token \o stream.tokens])]

\* Mutant of addThinkingToken: the other actors' streams are not spread into
\* the new thinkingStreams object.
addThinkingToken_Alone(state, playerId, token) ==
    IF playerId \notin DOMAIN state.thinkingStreams THEN state
    ELSE LET stream == state.thinkingStreams[playerId] IN
         [state EXCEPT
            !.thinkingStreams =
                Put(EmptyRecord, playerId,
                    [stream EXCEPT !.tokens = stream.tokens \o token])]

addThinkingToken(state, playerId, token) ==
    IF playerId \notin DOMAIN state.thinkingStreams THEN state
    ELSE LET stream == state.thinkingStreams[playerId] IN
         [state EXCEPT
            !.thinkingStreams =
                Put(state.thinkingStreams, playerId,
                    [stream EXCEPT !.tokens = stream.tokens \o token])]

completeThinking(state, playerId, action, now) ==
    IF playerId \notin DOMAIN state.thinkingStreams THEN state
    ELSE LET stream == state.thinkingStreams[playerId]
             newEntry ==
                 [handNumber |-> IF state.gameState # None
                                 THEN state.gameState[1].hand_number ELSE 0,
                  street |-> IF state.gameState # None
                             THEN state.gameState[1].street ELSE "preflop",
                  tokens |-> stream.tokens,
                  parsedAction |-> Some(action),
                  timestamp |-> now]
             updatedHistory ==
                 IF playerId \in DOMAIN state.reasoningHistory
                 THEN LET playerHistory == state.reasoningHistory[playerId] IN
                      [playerHistory EXCEPT
                         !.entries = Append(playerHistory.entries, newEntry)]
                 ELSE [playerId |-> playerId, playerName |-> <<"Player", playerId>>,
                       entries |-> <<newEntry>>, isExpanded |-> TRUE]
         IN  [state EXCEPT
                !.thinkingStreams =
                    Put(state.thinkingStreams, playerId,
                        [stream EXCEPT !.isActive = FALSE,
                                       !.parsedAction = Some(action)]),
                !.reasoningHistory =
                    Put(state.reasoningHistory, playerId, updatedHistory)]

clearThinking(state, playerId) ==
    [state EXCEPT !.thinkingStreams =
        [q \in (DOMAIN state.thinkingStreams) \ {playerId} |->
            state.thinkingStreams[q]]]

clearAllThinking(state) == [state EXCEPT !.thinkingStreams = EmptyRecord]

toggleReasoningExpanded(state, playerId) ==
    IF playerId \notin DOMAIN state.reasoningHistory THEN state
    ELSE LET playerHistory == state.reasoningHistory[playerId] IN
         [state EXCEPT
            !.reasoningHistory =
                Put(state.reasoningHistory, playerId,
                    [playerHistory EXCEPT !.isExpanded = ~playerHistory.isExpanded])]

clearReasoningHistory(state) == [state EXCEPT !.reasoningHistory = EmptyRecord]

startTimer(state, playerId, totalSeconds) ==
    [state EXCEPT !.timer = Some([playerId |-> playerId,
                                  totalSeconds |-> totalSeconds,
                                  remainingSeconds |-> totalSeconds,
                                  isExpired |-> FALSE])]

updateTimer(state, remainingSeconds) ==
    IF state.timer = None THEN state
    ELSE [state EXCEPT
            !.timer = Some([state.timer[1] EXCEPT
                              !.remainingSeconds = remainingSeconds])]

expireTimer(state) ==
    IF state.timer = None THEN state
    ELSE [state EXCEPT
            !.timer = Some([state.timer[1] EXCEPT !.isExpired = TRUE,
                                                  !.remainingSeconds = 0]),
            !.isMyTurn = FALSE]

clearTimer(state) == [state EXCEPT !.timer = None]

\* Mutant of setHandComplete: the thinking streams are left in place.
setHandComplete_KeepStreams(state, winners, amounts, revealedCards) ==
    [state EXCEPT
       !.handComplete = Some([winners |-> winners, amounts |-> amounts,
                              revealedCards |-> revealedCards,
                              isVisible |-> TRUE]),
       !.reasoningHistory = EmptyRecord]

setHandComplete(state, winners, amounts, revealedCards) ==
    [state EXCEPT
       !.handComplete = Some([winners |-> winners, amounts |-> amounts,
                              revealedCards |-> revealedCards,
                              isVisible |-> TRUE]),
       !.reasoningHistory = EmptyRecord,
       !.thinkingStreams = EmptyRecord]

dismissHandComplete(state) == [state EXCEPT !.handComplete = None]

reset(state) == initialState

(***************************************************************************)
(* Inputs: the values server events and the user can carry.                *)
(***************************************************************************)
Card(rank, suit) == [rank |-> rank, suit |-> suit]

\* AvailableActions offered to the human: facing a bet, or free to check.
FacingBet ==
    [can_fold |-> TRUE, can_check |-> FALSE, can_call |-> TRUE, call_amount |-> 2,
     can_raise |-> TRUE, min_raise |-> 4, max_raise |-> 10]
FreeToCheck ==
    [can_fold |-> FALSE, can_check |-> TRUE, can_call |-> FALSE, call_amount |-> 0,
     can_raise |-> FALSE, min_raise |-> 0, max_raise |-> 0]

\* player_name of seat i as the server names it; `Player ${i}` is <<"Player", i>>
NameOf(i) == IF i = 0 THEN <<"You", i>> ELSE <<"Bot", i>>

PlayerOf(i, stack, bet, la) ==
    [id |-> i, name |-> NameOf(i),
     player_type |-> IF i = 0 THEN "human" ELSE "llm",
     model |-> IF i = 0 THEN UNDEFINED ELSE "qwen3",
     stack |-> stack, current_bet |-> bet,
     hole_cards |-> IF i = 0 THEN Some(<<Card("A", "h"), Card("K", "h")>>) ELSE None,
     is_active |-> TRUE, is_busted |-> FALSE, last_action |-> la]

\* A GameState whose seats all hold the same stack, bet and last action.
GameStateOf(hand, street, pot, cards, button, actor, stack, bet, la, avail) ==
    [session_id |-> "s1", hand_number |-> hand, street |-> street, pot |-> pot,
     community_cards |-> cards, button_position |-> button,
     current_actor |-> actor,
     players |-> [i \in 1 .. NumPlayers |-> PlayerOf(i - 1, stack, bet, la)],
     available_actions |-> avail]

Actors == {None} \cup {Some(p) : p \in 0 .. 1}

Flop == <<Card("2", "c"), Card("7", "d"), Card("T", "s")>>

\* Full states: a hand not yet started (hand 0) and a hand in its first round,
\* with either nobody, the human or seat 1 to act.
FullStates ==
    { GameStateOf(h, "preflop", 3, <<>>, 0, a, 10, 0, UNDEFINED,
                  IF a = Some(0) THEN Some(FacingBet) ELSE None) :
        h \in 0 .. 1, a \in Actors }

UpdateOf(hand, street, pot, actor, cards, stacks, bets, las, avail) ==
    [hand_number |-> hand, street |-> street, pot |-> pot, current_actor |-> actor,
     community_cards |-> cards, player_stacks |-> stacks, player_bets |-> bets,
     last_actions |-> las, available_actions |-> avail]

Uniform(n, v) == [i \in 1 .. n |-> v]

\* Deltas of a hand on the flop, each array with one slot per seat.
Updates ==
    { UpdateOf(1, "flop", 6, a, Flop, Uniform(NumPlayers, 8),
               Uniform(NumPlayers, 2), Uniform(NumPlayers, "call"),
               IF a = Some(0) THEN Some(FreeToCheck) ELSE None) :
        a \in Actors }

ParsedActions == { [action_type |-> "fold", amount |-> None],
                   [action_type |-> "raise", amount |-> Some(4)] }

\* Token texts: one character, another one, and a chunk of two.
Tokens == { <<"a">>, <<"b">>, <<"c", "d">> }

\* Values Date.now() returns.
Times == {100, 200}

(***************************************************************************)
(* 12.3 Token Batching: class TokenBatcher.  A method is an operator from  *)
(* the object and the time it runs at to the object after it and the       *)
(* payloads it passed to broadcast_fn; its caller awaits each call before  *)
(* the next.                                                               *)
(***************************************************************************)
batch_size == 3          \* as constructed in test_batching
max_delay_ms == 50

\* __init__
TokenBatcher(now) == [buffer |-> <<>>, last_flush |-> now]

flush(self, now) ==
    IF self.buffer # <<>>
    THEN [self |-> [buffer |-> <<>>, last_flush |-> now],
          broadcast |-> <<self.buffer>>]
    ELSE [self |-> self, broadcast |-> <<>>]

\* Mutant of add_token: the token replaces the buffer instead of extending it.
add_token_Replace(self, token, now) ==
    LET added == [self EXCEPT !.buffer = token]
        should_flush == \/ Len(added.buffer) >= batch_size
                        \/ now - self.last_flush >= max_delay_ms
    IN  IF should_flush THEN flush(added, now)
        ELSE [self |-> added, broadcast |-> <<>>]

add_token(self, token, now) ==
    LET added == [self EXCEPT !.buffer = self.buffer \o token]
        should_flush == \/ Len(added.buffer) >= batch_size
                        \/ now - self.last_flush >= max_delay_ms
    IN  IF should_flush THEN flush(added, now)
        ELSE [self |-> added, broadcast |-> <<>>]

\* Fragments of the inference service, of any granularity: empty, one
\* character, two, and more than a batch.
Fragments == { <<>>, <<"H">>, <<"e", "l">>, <<"l", "o", "!", "?">> }

\* Milliseconds that pass between two calls.
Delays == {20, 30}

\* The history after a call that left `buffer` and broadcast `sent`.
Logged(call, fed, buffer, sent) ==
    [fed |-> fed,
     received |-> batchLog.received \o sent,
     oldest |-> IF buffer = <<>> THEN None
                ELSE IF batchLog.oldest = None \/ sent # <<>> THEN Some(clock)
                ELSE batchLog.oldest,
     last |-> call]

\* await batcher.add_token(token)
AddToken(token) ==
    /\ Len(batchLog.fed) < MaxFed
    /\ LET r == add_token(batcher, token, clock) IN
       /\ batcher' = r.self
       /\ batchLog' = Logged("add_token", Append(batchLog.fed, token),
                             r.self.buffer, r.broadcast)
    /\ UNCHANGED <<clientVars, up, down, server, clock, managerVars>>

\* await batcher.flush()
Flush ==
    /\ LET r == flush(batcher, clock) IN
       /\ batcher' = r.self
       /\ batchLog' = Logged("flush", batchLog.fed, r.self.buffer, r.broadcast)
    /\ UNCHANGED <<clientVars, up, down, server, clock, managerVars>>

\* Time passes with no call of the batcher.
Pass(ms) ==
    /\ clock + ms <= MaxClock
    /\ clock' = clock + ms
    /\ batchLog' = [batchLog EXCEPT !.last = "sleep"]
    /\ UNCHANGED <<clientVars, up, down, server, batcher, managerVars>>

(***************************************************************************)
(* 11.1 Server-Side State: class GameSessionManager.  A coroutine runs     *)
(* without interruption up to an await that suspends it: acquiring the     *)
(* held lock, and the session's cleanup().                                 *)
(***************************************************************************)
SessionIds == {"s1", "s2", "s3"}

\* __init__: no session, the lock free.  A session in _sessions is "ready"
\* once constructed and "cleaning" once its cleanup() has been called.
GameSessionManager == [sessions |-> [id \in {} |-> "ready"], lock |-> None]

\* create_session, once it holds the lock: the body has no await.
create_session(id) ==
    /\ manager.lock = None
    /\ id \notin DOMAIN manager.sessions
    /\ manager' = [manager EXCEPT !.sessions = Put(manager.sessions, id, "ready")]
    /\ UNCHANGED <<clientVars, up, down, server, batcherVars, got>>

\* get_session: self._sessions.get(session_id), without the lock.
get_session(session_id) ==
    /\ got' = Some([session_id |-> session_id,
                    session |-> IF session_id \in DOMAIN manager.sessions
                                THEN Some(manager.sessions[session_id])
                                ELSE None])
    /\ UNCHANGED <<clientVars, up, down, server, batcherVars, manager>>

\* remove_session up to its await: the lock is taken, and for a known id
\* cleanup() is called and awaited with the session still in _sessions; for
\* an unknown id the lock is released at once.
remove_session(session_id) ==
    /\ manager.lock = None
    /\ manager' =
          IF session_id \in DOMAIN manager.sessions
          THEN [sessions |-> [manager.sessions EXCEPT ![session_id] = "cleaning"],
                lock |-> Some(session_id)]
          ELSE manager
    /\ UNCHANGED <<clientVars, up, down, server, batcherVars, got>>

\* remove_session after cleanup() has returned: del, and the lock is released.
remove_session_resume ==
    /\ manager.lock # None
    /\ manager' =
          [sessions |-> [id \in (DOMAIN manager.sessions) \ {manager.lock[1]} |->
                            manager.sessions[id]],
           lock |-> None]
    /\ UNCHANGED <<clientVars, up, down, server, batcherVars, got>>

(***************************************************************************)
(* hooks/useWebSocket.ts.  Init is the hook after its first effect run:    *)
(* one socket created, still connecting, and the store as App left it.     *)
(***************************************************************************)
Init ==
    /\ store = setSessionId(initialState, Some("s1"))
    /\ wsRef = Some(1)
    /\ hasConnectedRef = TRUE
    /\ sockets = <<"CONNECTING">>
    /\ effect = "run"
    /\ lastEv = [type |-> "mount", data |-> None]
    /\ prev = store
    /\ tokenLog = [p \in Players |-> None]
    /\ nEvents = 0
    /\ moves = 0
    /\ panel = None
    /\ up = <<>>
    /\ down = <<>>
    /\ server = [phase |-> "absent", actor |-> 0, turns |-> 0, emitted |-> 0]
    /\ clock = 0
    /\ batcher = TokenBatcher(clock)
    /\ batchLog = [fed |-> <<>>, received |-> <<>>, oldest |-> None,
                   last |-> "__init__"]
    /\ manager = GameSessionManager
    /\ got = None

\* PokerTable renders <ActionPanel> in a started hand on the human's turn,
\* once GameWrapper shows the table at all.
PanelMounted(state) ==
    /\ state.isConnected
    /\ state.gameState # None
    /\ state.gameState[1].hand_number # 0
    /\ state.isMyTurn

\* ActionPanel's state after its first render: useState(0), useState(false),
\* and the initializer that sets the raise amount to a truthy min_raise.
ActionPanel(availableActions) ==
    [raiseAmount |-> IF availableActions # None /\ availableActions[1].min_raise # 0
                     THEN availableActions[1].min_raise ELSE 0,
     showRaiseSlider |-> FALSE]

\* The panel's state once React has rendered store state `next`: kept while
\* the panel stays mounted, initial when it mounts, gone when it unmounts.
Rerender(local, next) ==
    IF ~PanelMounted(next) THEN None
    ELSE IF local # None THEN local
    ELSE Some(ActionPanel(next.availableActions))

\* The browser reports the connection established; ws.onopen only logs.
WsOpen(ws) ==
    /\ ws \in DOMAIN sockets
    /\ sockets[ws] = "CONNECTING"
    /\ sockets' = [sockets EXCEPT ![ws] = "OPEN"]
    /\ lastEv' = [type |-> "open", data |-> ws]
    /\ prev' = store
    /\ UNCHANGED <<store, wsRef, hasConnectedRef, effect, tokenLog, nEvents,
                   moves, panel>>
    /\ UNCHANGED <<up, down, serverSide>>

\* ws.onerror
WsError(ws) ==
    /\ ws \in DOMAIN sockets
    /\ sockets[ws] \in {"CONNECTING", "OPEN"}
    /\ store' = setConnectionError(store, "Connection error")
    /\ panel' = Rerender(panel, store')
    /\ lastEv' = [type |-> "ws_error", data |-> ws]
    /\ prev' = store
    /\ UNCHANGED <<hookVars, tokenLog, nEvents, moves>>
    /\ UNCHANGED <<up, down, serverSide>>

\* The connection ends (server, network, or the closing handshake that the
\* cleanup's close() began): the socket is CLOSED, what was in flight on it
\* is lost, and ws.onclose runs with event.wasClean as given.  `up` and
\* `down` are the traffic of the socket created last.
WsClose(ws, wasClean) ==
    /\ ws \in DOMAIN sockets
    /\ sockets[ws] \in {"CONNECTING", "OPEN", "CLOSING"}
    /\ sockets' = [sockets EXCEPT ![ws] = "CLOSED"]
    /\ store' = setConnected(store, FALSE)
    /\ panel' = Rerender(panel, store')
    /\ wsRef' = None
    /\ lastEv' = [type |-> "close", data |-> [ws |-> ws, wasClean |-> wasClean]]
    /\ prev' = store
    /\ up' = IF ws = Len(sockets) THEN <<>> ELSE up
    /\ down' = IF ws = Len(sockets) THEN <<>> ELSE down
    /\ UNCHANGED <<hasConnectedRef, effect, tokenLog, nEvents, moves, serverSide>>

\* The cleanup of the connection effect: React runs it before the effect
\* runs again (sessionId changed, development remount) and on unmount.
\* close() on a socket still connecting or open starts the closing handshake;
\* its onclose runs later.
Cleanup ==
    /\ effect = "run"
    /\ effect' = "cleaned"
    /\ hasConnectedRef' = FALSE
    /\ IF wsRef # None
       THEN /\ sockets' = [sockets EXCEPT ![wsRef[1]] =
                              IF @ \in {"CONNECTING", "OPEN"} THEN "CLOSING" ELSE @]
            /\ wsRef' = None
       ELSE UNCHANGED <<sockets, wsRef>>
    /\ lastEv' = [type |-> "cleanup", data |-> wsRef]
    /\ prev' = store
    /\ UNCHANGED <<store, tokenLog, nEvents, moves, panel, up, down, serverSide>>

\* The connection effect runs again on the same hook instance, after its
\* cleanup: it returns at once if hasConnectedRef is set, else it creates a
\* WebSocket and stores it in wsRef.
EffectRun ==
    /\ effect = "cleaned"
    /\ Len(sockets) < MaxSockets
    /\ effect' = "run"
    /\ IF hasConnectedRef
       THEN UNCHANGED <<hasConnectedRef, sockets, wsRef, up, down>>
       ELSE /\ hasConnectedRef' = TRUE
            /\ sockets' = Append(sockets, "CONNECTING")
            /\ wsRef' = Some(Len(sockets) + 1)
            /\ up' = <<>>
            /\ down' = <<>>
    /\ lastEv' = [type |-> "effect", data |-> wsRef']
    /\ prev' = store
    /\ UNCHANGED <<store, tokenLog, nEvents, moves, panel, serverSide>>

\* The token history after the hook has handled an event: a thinking_start
\* of an actor opens its log, a thinking_token is appended to an open log, a
\* game_state or hand_complete closes every log.
LogAfter(type, data) ==
    CASE type = "thinking_start" ->
           [tokenLog EXCEPT ![data.player_id] = Some(<<>>)]
      [] type = "thinking_token" /\ tokenLog[data.player_id] # None ->
           [tokenLog EXCEPT ![data.player_id] = Some(Append(@[1], data.token))]
      [] type \in {"game_state", "hand_complete"} ->
           [p \in Players |-> None]
      [] OTHER -> tokenLog

\* The events that grant the human the turn: your_turn, and a full state or
\* a delta with current_actor 0.
GrantsTurn(type, data) ==
    \/ type = "your_turn"
    \/ type \in {"game_state", "game_state_update"} /\ data.current_actor = Some(0)

\* Handler runs explored per behaviour.
EventBudget == IF server.phase = "absent" THEN MaxEvents ELSE MaxProtocolEvents

\* An event as the server puts it on the socket.
Ev(type, data) == [type |-> type, data |-> data]

\* What of a handled event came over the socket: Date.now() did not.
WireData(type, data) ==
    CASE type = "thinking_start" -> [player_id |-> data.player_id]
      [] type = "thinking_complete" ->
           [player_id |-> data.player_id, action |-> data.action]
      [] OTHER -> data

\* ws.onmessage runs for a message delivered on an open socket; `next` is the
\* store after the case of the switch that handles it.  With a server on the
\* other end the message is the oldest event in flight; without one the
\* environment may deliver any event.
Handle(ws, type, data, next) ==
    /\ nEvents < EventBudget
    /\ ws \in DOMAIN sockets
    /\ sockets[ws] = "OPEN"
    /\ server.phase # "absent" =>
          (down # <<>> /\ Head(down) = Ev(type, WireData(type, data)))
    /\ down' = IF server.phase # "absent" THEN Tail(down) ELSE down
    /\ UNCHANGED <<up, serverSide>>
    /\ store' = next
    /\ panel' = Rerender(panel, next)
    /\ lastEv' = [type |-> type, data |-> data]
    /\ prev' = store
    /\ tokenLog' = LogAfter(type, data)
    /\ nEvents' = nEvents + 1
    /\ moves' = IF GrantsTurn(type, data) THEN 0 ELSE moves
    /\ UNCHANGED hookVars

OnConnectionAck(ws) ==
    Handle(ws, "connection_ack", None,
           setConnectionError(setConnected(store, TRUE), NULL))

OnGameState(ws, gs) ==
    Handle(ws, "game_state", gs, clearAllThinking(setGameState(store, gs)))

OnGameStateUpdate(ws, update) ==
    Handle(ws, "game_state_update", update, updateGameState(store, update))

OnYourTurn(ws, avail) ==
    Handle(ws, "your_turn", avail, setMyTurn(store, TRUE, Some(avail)))

OnThinkingStart(ws, p, now) ==
    Handle(ws, "thinking_start", [player_id |-> p, now |-> now],
           startThinking(store, p, NameOf(p), now))

OnThinkingToken(ws, p, token) ==
    Handle(ws, "thinking_token", [player_id |-> p, token |-> token],
           addThinkingToken(store, p, token))

OnThinkingComplete(ws, p, action, now) ==
    Handle(ws, "thinking_complete", [player_id |-> p, action |-> action, now |-> now],
           completeThinking(store, p, action, now))

OnTimerStart(ws, p, total) ==
    Handle(ws, "timer_start", [player_id |-> p, total_seconds |-> total],
           startTimer(store, p, total))

OnTimerTick(ws, remaining) ==
    Handle(ws, "timer_tick", remaining, updateTimer(store, remaining))

OnTimerExpired(ws) ==
    Handle(ws, "timer_expired", None, expireTimer(store))

OnHandComplete(ws, winners, amounts, revealed) ==
    Handle(ws, "hand_complete", [winners |-> winners, amounts |-> amounts],
           setHandComplete(clearTimer(store), winners, amounts, revealed))

OnSessionComplete(ws) == Handle(ws, "session_complete", None, store)

OnError(ws, message) ==
    Handle(ws, "error", message, setConnectionError(store, message))

OnPong(ws) == Handle(ws, "pong", None, store)

\* sendMessage: the message goes out only on an open socket held by wsRef.
CanSend == wsRef # None /\ sockets[wsRef[1]] = "OPEN"

\* A user-interface handler: `next` is the store after it, `message` what it
\* passed to sendMessage (None if nothing), `local` the ActionPanel's state
\* as the handler set it.
UiStep(type, message, next, local) ==
    /\ nEvents < EventBudget
    /\ panel' = Rerender(local, next)
    /\ up' = IF message # None /\ CanSend THEN Append(up, message[1]) ELSE up
    /\ UNCHANGED <<down, serverSide>>
    /\ store' = next
    /\ lastEv' = [type |-> type,
                  data |-> [message |-> message,
                            sent |-> message # None /\ CanSend]]
    /\ prev' = store
    /\ nEvents' = nEvents + 1
    /\ moves' = IF message # None /\ CanSend /\ message[1].type = "player_action"
                THEN moves + 1 ELSE moves
    /\ UNCHANGED <<hookVars, tokenLog>>

Ui(type, message, next) == UiStep(type, message, next, panel)

PlayerAction(actionType, amount) ==
    [type |-> "player_action", action_type |-> actionType, amount |-> amount]

\* Mutant of sendAction: the turn state is left as it was.
sendAction_KeepTurn(actionType, amount) ==
    Ui("sendAction", Some(PlayerAction(actionType, amount)), store)

\* sendAction: sendMessage, then setMyTurn(false) and clearTimer()
sendAction(actionType, amount) ==
    Ui("sendAction", Some(PlayerAction(actionType, amount)),
       clearTimer(setMyTurn(store, FALSE, None)))

\* Mutant of KeyDown: the listener does not look at isMyTurn.
KeyDown_AnyTurn(key) ==
    LET availableActions == store.availableActions
    IN  IF availableActions = None
        THEN Ui("keydown", None, store)
        ELSE CASE key = "f" /\ availableActions[1].can_fold -> sendAction("fold", None)
               [] key = "c" /\ availableActions[1].can_check -> sendAction("check", None)
               [] key = "c" /\ ~availableActions[1].can_check
                            /\ availableActions[1].can_call -> sendAction("call", None)
               [] OTHER -> Ui("keydown", None, store)

\* GameWrapper's keydown listener (App.tsx)
KeyDown(key) ==
    LET isMyTurn == store.isMyTurn
        availableActions == store.availableActions
    IN  IF ~isMyTurn \/ availableActions = None
        THEN Ui("keydown", None, store)
        ELSE CASE key = "f" /\ availableActions[1].can_fold -> sendAction("fold", None)
               [] key = "c" /\ availableActions[1].can_check -> sendAction("check", None)
               [] key = "c" /\ ~availableActions[1].can_check
                            /\ availableActions[1].can_call -> sendAction("call", None)
               [] OTHER -> Ui("keydown", None, store)

\* PokerTable is rendered once connected and shows the table once a game state
\* is known; the ActionPanel is rendered on the human's turn of a started hand
\* and renders nothing without available actions.
TableShown == store.isConnected /\ store.gameState # None
isWaitingToStart == store.gameState # None /\ store.gameState[1].hand_number = 0
PanelShown ==
    /\ TableShown
    /\ ~isWaitingToStart
    /\ store.isMyTurn
    /\ store.availableActions # None

\* ActionPanel: handleFold, handleCheckCall, handleAllIn on their buttons
ClickFold ==
    /\ PanelShown
    /\ store.availableActions[1].can_fold
    /\ sendAction("fold", None)

ClickCheckCall ==
    /\ PanelShown
    /\ IF store.availableActions[1].can_check
       THEN sendAction("check", None)
       ELSE sendAction("call", None)

ClickAllIn ==
    /\ PanelShown
    /\ store.availableActions[1].can_raise
    /\ store.availableActions[1].max_raise > 0
    /\ sendAction("all_in", None)

\* A setState of the ActionPanel alone: the store is not touched.
PanelLocal(local) ==
    /\ panel' = Some(local)
    /\ UNCHANGED <<store, hookVars, lastEv, prev, tokenLog, nEvents, moves, up,
                   down, serverSide>>

\* The raise slider with its quick bets, Cancel and Confirm Raise is rendered.
SliderShown ==
    /\ PanelShown
    /\ panel[1].showRaiseSlider
    /\ store.availableActions[1].can_raise

\* ActionPanel: handleRaise, on the Raise button and on Confirm Raise
handleRaise ==
    IF panel[1].showRaiseSlider
    THEN UiStep("sendAction",
                Some(PlayerAction("raise", Some(panel[1].raiseAmount))),
                clearTimer(setMyTurn(store, FALSE, None)),
                Some([panel[1] EXCEPT !.showRaiseSlider = FALSE]))
    ELSE PanelLocal([showRaiseSlider |-> TRUE,
                     raiseAmount |-> IF store.availableActions[1].min_raise # 0
                                     THEN store.availableActions[1].min_raise
                                     ELSE panel[1].raiseAmount])

ClickRaise ==
    /\ PanelShown
    /\ store.availableActions[1].can_raise
    /\ handleRaise

ClickConfirmRaise == SliderShown /\ handleRaise

ClickCancelRaise ==
    /\ SliderShown
    /\ PanelLocal([panel[1] EXCEPT !.showRaiseSlider = FALSE])

\* The range input, between its min and max
SlideTo(value) ==
    /\ SliderShown
    /\ value \in store.availableActions[1].min_raise ..
                 store.availableActions[1].max_raise
    /\ PanelLocal([panel[1] EXCEPT !.raiseAmount = value])

\* ActionPanel: handleQuickBet, the multiplier in hundredths
handleQuickBet(percent) ==
    LET max_raise == store.availableActions[1].max_raise
        floored == (max_raise * percent) \div 100
        amount == IF floored < max_raise THEN floored ELSE max_raise
    IN  /\ SliderShown
        /\ PanelLocal([panel[1] EXCEPT !.raiseAmount = amount])

\* PokerTable: the Start Hand button, and handleNextHand on the winner overlay
ClickStartHand ==
    /\ TableShown
    /\ isWaitingToStart
    /\ Ui("start_hand", Some([type |-> "start_hand"]), store)

ClickNextHand ==
    /\ TableShown
    /\ store.handComplete # None
    /\ store.handComplete[1].isVisible
    /\ Ui("next_hand", Some([type |-> "start_hand"]), dismissHandComplete(store))

\* GameWrapper: (useGameStore.getState() as any).sessionComplete, a field the
\* store may not have.
sessionComplete(state) ==
    IF "sessionComplete" \in DOMAIN state THEN Some(state.sessionComplete) ELSE None

\* GameWrapper renders the Game Over overlay with its Play Again button.
OverlayShown ==
    /\ TableShown
    /\ sessionComplete(store) # None
    /\ sessionComplete(store)[1] = TRUE

\* PokerTable: the collapsible header of an LLM seat's reasoning panel
ClickReasoningHeader(p) ==
    /\ TableShown
    /\ \E i \in DOMAIN store.gameState[1].players :
          /\ store.gameState[1].players[i].id = p
          /\ store.gameState[1].players[i].player_type = "llm"
    /\ Ui("toggle_reasoning", None, toggleReasoningExpanded(store, p))

(***************************************************************************)
(* Spec: the mounted client, every event of the protocol and every modelled *)
(* user action, with one reasoning actor.                                  *)
(***************************************************************************)
Next ==
    \/ \E ws \in Sockets : WsOpen(ws)
    \/ \E ws \in Sockets : WsError(ws)
    \/ \E ws \in Sockets, wasClean \in BOOLEAN : WsClose(ws, wasClean)
    \/ \E ws \in Sockets : OnConnectionAck(ws)
    \/ \E ws \in Sockets, gs \in FullStates : OnGameState(ws, gs)
    \/ \E ws \in Sockets, update \in Updates : OnGameStateUpdate(ws, update)
    \/ \E ws \in Sockets : OnYourTurn(ws, FacingBet)
    \/ \E ws \in Sockets, now \in Times : OnThinkingStart(ws, 1, now)
    \/ \E ws \in Sockets : OnThinkingToken(ws, 1, <<"a">>)
    \/ \E ws \in Sockets, now \in Times :
          OnThinkingComplete(ws, 1, [action_type |-> "fold", amount |-> None], now)
    \/ \E ws \in Sockets : OnTimerStart(ws, 0, 30)
    \/ \E ws \in Sockets : OnTimerTick(ws, 29)
    \/ \E ws \in Sockets : OnTimerExpired(ws)
    \/ \E ws \in Sockets : OnHandComplete(ws, <<0>>, <<6>>, EmptyRecord)
    \/ \E ws \in Sockets : OnSessionComplete(ws)
    \/ \E ws \in Sockets : OnError(ws, "Invalid action")
    \/ \E ws \in Sockets : OnPong(ws)
    \/ \E key \in {"f", "c", "r"} : KeyDown(key)
    \/ ClickFold
    \/ ClickCheckCall
    \/ ClickAllIn
    \/ ClickStartHand
    \/ ClickNextHand
    \/ \E p \in LLMPlayers : ClickReasoningHeader(p)

Spec == Init /\ [][Next]_vars

(***************************************************************************)
(* The session's server, as the specification describes it (its code is    *)
(* not part of the client): one worker per session that plays the turns of *)
(* a hand in order.  A human turn starts the timer and announces the legal *)
(* moves, then ends with the human's move or with the expiry and its       *)
(* fallback move; an automated turn opens a reasoning stream and ends with *)
(* its completion.  After each move the server broadcasts a delta.  Its    *)
(* sends are queued on the socket, never awaited.                          *)
(***************************************************************************)
InitProtocol ==
    /\ store = setSessionId(initialState, Some("s1"))
    /\ wsRef = Some(1)
    /\ hasConnectedRef = TRUE
    /\ sockets = <<"CONNECTING">>
    /\ effect = "run"
    /\ lastEv = [type |-> "mount", data |-> None]
    /\ prev = store
    /\ tokenLog = [p \in Players |-> None]
    /\ nEvents = 0
    /\ moves = 0
    /\ panel = None
    /\ up = <<>>
    /\ down = <<>>
    /\ server = [phase |-> "listening", actor |-> 0, turns |-> 0, emitted |-> 0]
    /\ clock = 0
    /\ batcher = TokenBatcher(clock)
    /\ batchLog = [fed |-> <<>>, received |-> <<>>, oldest |-> None,
                   last |-> "__init__"]
    /\ manager = GameSessionManager
    /\ got = None

\* The full state of a hand not yet started, and of hand 1 with seat a to
\* act; the legal moves are an optional field of a state event.
LobbyState == GameStateOf(0, "preflop", 3, <<>>, 0, None, 10, 0, UNDEFINED, None)

HandState(a, withMoves) ==
    GameStateOf(1, "preflop", 3, <<>>, 0, Some(a), 10, 0, UNDEFINED,
                IF a = 0 /\ withMoves THEN Some(FacingBet) ELSE None)

\* The delta after a move, with seat a to act next (nobody if a is None).
DeltaTo(a, withMoves) ==
    UpdateOf(1, "preflop", 6, a, <<>>, Uniform(NumPlayers, 8),
             Uniform(NumPlayers, 2), Uniform(NumPlayers, "call"),
             IF a = Some(0) /\ withMoves THEN Some(FacingBet) ELSE None)

ProtocolStates == {LobbyState} \cup {HandState(a, w) : a \in 0 .. 1, w \in BOOLEAN}
ProtocolUpdates == {DeltaTo(a, w) : a \in Actors, w \in BOOLEAN}

\* The events that open the turn of seat a.
BeginTurn(a) ==
    IF a = 0
    THEN << Ev("timer_start", [player_id |-> 0, total_seconds |-> 30]),
            Ev("your_turn", FacingBet) >>
    ELSE << Ev("thinking_start", [player_id |-> a]) >>

Waiting(a, turns) ==
    [phase |-> IF a = 0 THEN "human" ELSE "llm", actor |-> a, turns |-> turns,
     emitted |-> 0]

\* The server's end of the connection is usable.
Connected == 1 \in DOMAIN sockets /\ sockets[1] = "OPEN"

\* A client has connected: connection_ack, then the full state.
SrvAccept ==
    /\ server.phase = "listening"
    /\ Connected
    /\ down' = down \o << Ev("connection_ack", None), Ev("game_state", LobbyState) >>
    /\ server' = [server EXCEPT !.phase = "lobby"]
    /\ UNCHANGED <<clientVars, up, batcherVars, managerVars>>

\* start_hand read before a hand or between two: the full state of the new
\* hand, then the first turn.
SrvStartHand ==
    /\ server.phase \in {"lobby", "between"}
    /\ server.turns < MaxTurns
    /\ Connected
    /\ up # <<>> /\ Head(up).type = "start_hand"
    /\ up' = Tail(up)
    /\ \E a \in 0 .. 1, w \in BOOLEAN :
          /\ down' = down \o << Ev("game_state", HandState(a, w)) >> \o BeginTurn(a)
          /\ server' = Waiting(a, server.turns + 1)
    /\ UNCHANGED <<clientVars, batcherVars, managerVars>>

\* After a move of seat a: the delta, then either the next seat's turn or the
\* end of the hand.
AfterMove(a, before) ==
    \/ /\ server.turns < MaxTurns
       /\ \E w \in BOOLEAN :
             down' = down \o before \o << Ev("game_state_update",
                                              DeltaTo(Some(1 - a), w)) >>
                          \o BeginTurn(1 - a)
       /\ server' = Waiting(1 - a, server.turns + 1)
    \/ /\ down' = down \o before
                       \o << Ev("game_state_update", DeltaTo(None, FALSE)),
                             Ev("hand_complete", [winners |-> <<0>>,
                                                  amounts |-> <<6>>]) >>
       /\ server' = [server EXCEPT !.phase = "between", !.emitted = 0]

\* A move the offered legal moves allow.
Legal(avail, move) ==
    CASE move.action_type = "fold" -> avail.can_fold
      [] move.action_type = "check" -> avail.can_check
      [] move.action_type = "call" -> avail.can_call
      [] move.action_type \in {"raise", "all_in"} -> avail.can_raise
      [] OTHER -> FALSE

\* The human's move read during the human's turn: applied (the timer is
\* cancelled and emits nothing more), or rejected with an error and a new
\* prompt for the same actor.
SrvMove ==
    /\ server.phase = "human"
    /\ Connected
    /\ up # <<>> /\ Head(up).type = "player_action"
    /\ up' = Tail(up)
    /\ IF Legal(FacingBet, Head(up))
       THEN AfterMove(0, <<>>)
       ELSE /\ down' = down \o << Ev("error", "Invalid action"),
                                  Ev("your_turn", FacingBet) >>
            /\ UNCHANGED server
    /\ UNCHANGED <<clientVars, batcherVars, managerVars>>

\* A message read when the server does not wait for it: an error event.
SrvUnexpected ==
    /\ server.phase \in {"lobby", "human", "llm", "between"}
    /\ Connected
    /\ up # <<>>
    /\ \/ Head(up).type = "player_action" /\ server.phase # "human"
       \/ Head(up).type = "start_hand" /\ server.phase \in {"human", "llm"}
    /\ up' = Tail(up)
    /\ down' = Append(down, Ev("error", "Invalid action"))
    /\ UNCHANGED <<clientVars, server, batcherVars, managerVars>>

\* The running timer ticks.
SrvTick ==
    /\ server.phase = "human"
    /\ server.emitted < MaxPerTurn
    /\ Connected
    /\ down' = Append(down, Ev("timer_tick", 29))
    /\ server' = [server EXCEPT !.emitted = @ + 1]
    /\ UNCHANGED <<clientVars, up, batcherVars, managerVars>>

\* The timer reaches zero: the expiry event and the fallback move.
SrvExpire ==
    /\ server.phase = "human"
    /\ Connected
    /\ AfterMove(0, << Ev("timer_expired", None) >>)
    /\ UNCHANGED <<clientVars, up, batcherVars, managerVars>>

\* The automated actor's stream yields a token.
SrvToken ==
    /\ server.phase = "llm"
    /\ server.emitted < MaxPerTurn
    /\ Connected
    /\ down' = Append(down, Ev("thinking_token",
                               [player_id |-> server.actor, token |-> <<"a">>]))
    /\ server' = [server EXCEPT !.emitted = @ + 1]
    /\ UNCHANGED <<clientVars, up, batcherVars, managerVars>>

\* The stream completes (or is force-completed) with a move.
SrvComplete ==
    /\ server.phase = "llm"
    /\ Connected
    /\ AfterMove(server.actor,
                 << Ev("thinking_complete",
                       [player_id |-> server.actor,
                        action |-> [action_type |-> "fold", amount |-> None]]) >>)
    /\ UNCHANGED <<clientVars, up, batcherVars, managerVars>>

(***************************************************************************)
(* SpecProtocol: the client connected to that server.  The socket delivers *)
(* the server's events in the order sent; the human presses keys and       *)
(* buttons at any moment in between.                                       *)
(***************************************************************************)
NextProtocol ==
    \/ \E ws \in Sockets : WsOpen(ws)
    \/ SrvAccept
    \/ SrvStartHand
    \/ SrvMove
    \/ SrvUnexpected
    \/ SrvTick
    \/ SrvExpire
    \/ SrvToken
    \/ SrvComplete
    \/ \E ws \in Sockets : OnConnectionAck(ws)
    \/ \E ws \in Sockets, gs \in ProtocolStates : OnGameState(ws, gs)
    \/ \E ws \in Sockets, update \in ProtocolUpdates : OnGameStateUpdate(ws, update)
    \/ \E ws \in Sockets : OnYourTurn(ws, FacingBet)
    \/ \E ws \in Sockets, now \in Times : OnThinkingStart(ws, 1, now)
    \/ \E ws \in Sockets : OnThinkingToken(ws, 1, <<"a">>)
    \/ \E ws \in Sockets, now \in Times :
          OnThinkingComplete(ws, 1, [action_type |-> "fold", amount |-> None], now)
    \/ \E ws \in Sockets : OnTimerStart(ws, 0, 30)
    \/ \E ws \in Sockets : OnTimerTick(ws, 29)
    \/ \E ws \in Sockets : OnTimerExpired(ws)
    \/ \E ws \in Sockets : OnHandComplete(ws, <<0>>, <<6>>, EmptyRecord)
    \/ \E ws \in Sockets : OnError(ws, "Invalid action")
    \/ \E key \in {"f", "c"} : KeyDown(key)
    \/ ClickFold
    \/ ClickCheckCall
    \/ ClickAllIn
    \/ ClickStartHand
    \/ ClickNextHand

SpecProtocol == InitProtocol /\ [][NextProtocol]_vars

(***************************************************************************)
(* SpecPanel: the human's turn.  The server offers legal moves of several  *)
(* shapes: facing a bet, free to check, and a bet that can only be folded  *)
(* to or raised over; the human uses every control of the panel.           *)
(***************************************************************************)
FoldOrRaise ==
    [can_fold |-> TRUE, can_check |-> FALSE, can_call |-> FALSE, call_amount |-> 0,
     can_raise |-> TRUE, min_raise |-> 6, max_raise |-> 10]

PanelActions == {FacingBet, FreeToCheck, FoldOrRaise}

PanelStates ==
    { GameStateOf(1, "preflop", 3, <<>>, 0, Some(0), 10, 0, UNDEFINED, Some(avail)) :
        avail \in PanelActions }
    \cup { GameStateOf(1, "preflop", 3, <<>>, 0, Some(1), 10, 0, UNDEFINED, None) }

NextPanel ==
    \/ \E ws \in Sockets : WsOpen(ws)
    \/ \E ws \in Sockets : OnConnectionAck(ws)
    \/ \E ws \in Sockets, gs \in PanelStates : OnGameState(ws, gs)
    \/ \E ws \in Sockets, avail \in PanelActions : OnYourTurn(ws, avail)
    \/ \E ws \in Sockets : OnTimerStart(ws, 0, 30)
    \/ \E ws \in Sockets : OnTimerExpired(ws)
    \/ \E key \in {"f", "c", "r"} : KeyDown(key)
    \/ ClickFold
    \/ ClickCheckCall
    \/ ClickRaise
    \/ ClickConfirmRaise
    \/ ClickCancelRaise
    \/ \E value \in 0 .. 10 : SlideTo(value)
    \/ \E percent \in {33, 50, 75, 100} : handleQuickBet(percent)
    \/ ClickAllIn

SpecPanel == Init /\ [][NextPanel]_vars

(***************************************************************************)
(* SpecConnection: the life of the hook's connection: it opens, fails or   *)
(* closes, cleanly or not, while the first events arrive and the human     *)
(* uses the page.  What the browser has to deliver it eventually delivers; *)
(* the human is free to do nothing.                                        *)
(***************************************************************************)
SocketEvents ==
    \/ \E ws \in Sockets : WsOpen(ws)
    \/ \E ws \in Sockets : WsError(ws)
    \/ \E ws \in Sockets, wasClean \in BOOLEAN : WsClose(ws, wasClean)
    \/ \E ws \in Sockets : OnConnectionAck(ws)
    \/ \E ws \in Sockets, gs \in FullStates : OnGameState(ws, gs)
    \/ \E ws \in Sockets : OnPong(ws)

NextConnection ==
    \/ SocketEvents
    \/ \E key \in {"f", "c"} : KeyDown(key)
    \/ ClickStartHand

SpecConnection == Init /\ [][NextConnection]_vars /\ WF_vars(SocketEvents)

(***************************************************************************)
(* The life cycle of one useWebSocket instance: React cleans the effect up *)
(* and runs it again while the sockets' events arrive and the human plays. *)
(***************************************************************************)
NextLifecycle ==
    \/ Cleanup
    \/ EffectRun
    \/ \E ws \in Sockets : WsOpen(ws)
    \/ \E ws \in Sockets, wasClean \in BOOLEAN : WsClose(ws, wasClean)
    \/ \E ws \in Sockets : OnConnectionAck(ws)
    \/ \E ws \in Sockets, gs \in FullStates : OnGameState(ws, gs)
    \/ \E key \in {"f", "c"} : KeyDown(key)

SpecLifecycle == Init /\ [][NextLifecycle]_vars

(***************************************************************************)
(* SpecBatcher: one task feeds a TokenBatcher and flushes it, while time   *)
(* passes.  SpecRegistry: tasks call the GameSessionManager concurrently.  *)
(***************************************************************************)
NextBatcher ==
    \/ \E token \in Fragments : AddToken(token)
    \/ Flush
    \/ \E ms \in Delays : Pass(ms)

SpecBatcher == Init /\ [][NextBatcher]_vars

NextRegistry ==
    \/ \E id \in SessionIds : create_session(id)
    \/ \E id \in SessionIds : get_session(id)
    \/ \E id \in SessionIds : remove_session(id)
    \/ remove_session_resume

SpecRegistry == Init /\ [][NextRegistry]_vars

(***************************************************************************)
(* SpecDelta: the state events alone, with deltas of every shape: arrays   *)
(* that cover every seat or stop one seat short, a stack of 0, last        *)
(* actions that are strings or null, available_actions present or absent.  *)
(***************************************************************************)
Stacks(n, base) == [i \in 1 .. n |-> base + i - 1]

LastActionArrays(n) ==
    { Uniform(n, "call"), [i \in 1 .. n |-> IF i = 2 THEN NULL ELSE "check"] }

RichUpdates ==
    { UpdateOf(1, "flop", 6, a, Flop, Stacks(n, base), Stacks(n, 2), las, avail) :
        a \in Actors, n \in {NumPlayers - 1, NumPlayers}, base \in {0, 8},
        las \in UNION {LastActionArrays(m) : m \in {NumPlayers - 1, NumPlayers}},
        avail \in {None, Some(FreeToCheck)} }

StartedStates == {gs \in FullStates : gs.hand_number = 1}

NextDelta ==
    \/ \E ws \in Sockets : WsOpen(ws)
    \/ \E ws \in Sockets, gs \in StartedStates : OnGameState(ws, gs)
    \/ \E ws \in Sockets, update \in RichUpdates : OnGameStateUpdate(ws, update)

SpecDelta == Init /\ [][NextDelta]_vars

(***************************************************************************)
(* SpecThinking: the reasoning events of every LLM seat, interleaved with  *)
(* the two events that clear the accumulators.                             *)
(***************************************************************************)
NextThinking ==
    \/ \E ws \in Sockets : WsOpen(ws)
    \/ \E ws \in Sockets, gs \in StartedStates : OnGameState(ws, gs)
    \/ \E ws \in Sockets : OnHandComplete(ws, <<0>>, <<6>>, EmptyRecord)
    \/ \E ws \in Sockets, p \in LLMPlayers, now \in Times : OnThinkingStart(ws, p, now)
    \/ \E ws \in Sockets, p \in LLMPlayers, token \in Tokens :
          OnThinkingToken(ws, p, token)
    \/ \E ws \in Sockets, p \in LLMPlayers, action \in ParsedActions, now \in Times :
          OnThinkingComplete(ws, p, action, now)

SpecThinking == Init /\ [][NextThinking]_vars

(***************************************************************************)
(* Properties.                                                             *)
(***************************************************************************)
Was(type) == lastEv.type = type

TimerEvents == {"timer_start", "timer_tick", "timer_expired"}
ThinkingEvents == {"thinking_start", "thinking_token", "thinking_complete"}

HasStream(state, p) == p \in DOMAIN state.thinkingStreams

\* C1: after the hook has handled a game_state event the store's gameState is
\* the event's state, no reasoning accumulator is left and the timer is null,
\* whatever the store held before.
C1_FullStateReplacesLocalState ==
    Was("game_state") =>
        /\ store.gameState = Some(lastEv.data)
        /\ store.thinkingStreams = EmptyRecord
        /\ store.timer = None

\* C2: a timer event (timer_start, timer_tick, timer_expired) leaves isMyTurn
\* as it was: only the state events decide whether the move controls are
\* enabled.
C2_TimerEventsNeverGate ==
    lastEv.type \in TimerEvents => store.isMyTurn = prev.isMyTurn

\* C3: after a game_state event the client's view (game state, timer,
\* accumulators, hand-complete overlay, turn flag, available actions) is the
\* one the event's state alone determines, the view of a client that has seen
\* nothing else; nothing of the prior store survives in it.
C3_ResyncYieldsServerState ==
    Was("game_state") =>
        LET gs == lastEv.data IN
        /\ store.gameState = Some(gs)
        /\ store.isMyTurn = (gs.current_actor = Some(0))
        /\ store.availableActions = gs.available_actions
        /\ store.thinkingStreams = EmptyRecord
        /\ store.timer = None
        /\ store.handComplete = None

\* A slot of the client holds what the wire carried: a carried null is held
\* as null or undefined (no last action), anything else as itself.
Holds(client, wire) ==
    IF wire = NULL THEN client \in {NULL, UNDEFINED} ELSE client = wire

\* The fields of a seat that no delta carries.
SeatIdentity(player) ==
    <<player.id, player.name, player.player_type, player.model,
      player.hole_cards, player.is_active, player.is_busted>>

\* C4: after a game_state_update handled with a game state present, every
\* field and slot the delta carries holds the delta's value, and everything
\* it does not carry (an absent available_actions, the seats past the end of
\* player_stacks / player_bets / last_actions, hole cards, button position,
\* session id) holds the value it had before.
C4_DeltaMergesOnlyCarriedFields ==
    (Was("game_state_update") /\ prev.gameState # None) =>
        LET d == lastEv.data
            old == prev.gameState[1]
            new == store.gameState[1]
        IN  /\ new.hand_number = d.hand_number
            /\ new.street = d.street
            /\ new.pot = d.pot
            /\ new.current_actor = d.current_actor
            /\ new.community_cards = d.community_cards
            /\ new.available_actions =
                  IF d.available_actions = None THEN old.available_actions
                  ELSE d.available_actions
            /\ new.button_position = old.button_position
            /\ new.session_id = old.session_id
            /\ DOMAIN new.players = DOMAIN old.players
            /\ \A i \in DOMAIN old.players :
                  /\ SeatIdentity(new.players[i]) = SeatIdentity(old.players[i])
                  /\ new.players[i].stack =
                        IF i \in DOMAIN d.player_stacks THEN d.player_stacks[i]
                        ELSE old.players[i].stack
                  /\ new.players[i].current_bet =
                        IF i \in DOMAIN d.player_bets THEN d.player_bets[i]
                        ELSE old.players[i].current_bet
                  /\ IF i \in DOMAIN d.last_actions
                     THEN Holds(new.players[i].last_action, d.last_actions[i])
                     ELSE new.players[i].last_action = old.players[i].last_action

\* C5: after a game_state_update handled with a game state present, handling
\* the same delta again would change nothing, and every seat the delta
\* carries holds the delta's stack, bet and last action (a null last action
\* included), whichever events came before.
C5_DeltaMergeIdempotentAndSelfContained ==
    (Was("game_state_update") /\ prev.gameState # None) =>
        LET d == lastEv.data
            new == store.gameState[1]
        IN  /\ updateGameState(store, d) = store
            /\ \A i \in DOMAIN new.players :
                  /\ i \in DOMAIN d.player_stacks =>
                        new.players[i].stack = d.player_stacks[i]
                  /\ i \in DOMAIN d.player_bets =>
                        new.players[i].current_bet = d.player_bets[i]
                  /\ i \in DOMAIN d.last_actions =>
                        Holds(new.players[i].last_action, d.last_actions[i])

RECURSIVE Flatten(_)
\* The texts of a sequence of tokens, one after the other.
Flatten(texts) ==
    IF texts = <<>> THEN <<>> ELSE Head(texts) \o Flatten(Tail(texts))

\* C6: for every actor that has had a thinking_start with no game_state or
\* hand_complete after it, the accumulator exists and its text is the texts
\* of the thinking_token events handled for that actor since, in the order
\* they were handled.
C6_AccumulatorIsTokenConcatenation ==
    \A p \in Players :
        tokenLog[p] # None =>
            /\ HasStream(store, p)
            /\ store.thinkingStreams[p].tokens = Flatten(tokenLog[p][1])

\* An actor has received two different tokens since its thinking_start.
C6_Witness ==
    \E p \in LLMPlayers :
        /\ tokenLog[p] # None
        /\ Len(tokenLog[p][1]) >= 2
        /\ tokenLog[p][1][1] # tokenLog[p][1][2]
        /\ HasStream(store, p)
        /\ store.thinkingStreams[p].tokens = Flatten(tokenLog[p][1])

\* C7: after a thinking_complete for actor p, p has a stream that is inactive
\* and holds the event's action as parsedAction, also when the client held no
\* accumulator for p; and a thinking_token for an actor whose stream is
\* inactive (completed) leaves that stream's text as it was.
C7_CompleteFreezesAndRecords ==
    /\ Was("thinking_complete") =>
          LET p == lastEv.data.player_id IN
          /\ HasStream(store, p)
          /\ ~store.thinkingStreams[p].isActive
          /\ store.thinkingStreams[p].parsedAction = Some(lastEv.data.action)
    /\ Was("thinking_token") =>
          LET p == lastEv.data.player_id IN
          (HasStream(prev, p) /\ ~prev.thinkingStreams[p].isActive) =>
              /\ HasStream(store, p)
              /\ store.thinkingStreams[p].tokens = prev.thinkingStreams[p].tokens

\* The store with the start stamp of p's stream blanked.
Unstamped(state, p) ==
    IF HasStream(state, p)
    THEN [state EXCEPT !.thinkingStreams[p].startTime = 0]
    ELSE state

FreshStream(p, now) ==
    [playerId |-> p, isActive |-> TRUE, tokens |-> <<>>, parsedAction |-> None,
     startTime |-> now]

\* C8 as claimed: a thinking_start for an actor that already has an
\* accumulator leaves the store as it was before the event (the start stamp
\* aside).
C8_RepeatedStartIsNoOp ==
    Was("thinking_start") =>
        LET p == lastEv.data.player_id IN
        /\ HasStream(store, p)
        /\ HasStream(prev, p) => Unstamped(store, p) = Unstamped(prev, p)

\* C8 as amended: a thinking_start for actor p leaves p with an empty, active
\* accumulator without parsed action, whether or not p had one, and handling
\* the same thinking_start again right away would leave the store as it is
\* (a later Date.now() would change the start stamp only).
C8_StartInitializesAndIsIdempotent ==
    Was("thinking_start") =>
        LET p == lastEv.data.player_id
            now == lastEv.data.now
        IN  /\ HasStream(store, p)
            /\ store.thinkingStreams[p] = FreshStream(p, now)
            /\ startThinking(store, p, NameOf(p), now) = store
            /\ \A later \in Times :
                  Unstamped(startThinking(store, p, NameOf(p), later), p)
                    = Unstamped(store, p)

\* A thinking_start has been handled for an actor whose accumulator held text.
C8_Witness ==
    /\ Was("thinking_start")
    /\ HasStream(prev, lastEv.data.player_id)
    /\ prev.thinkingStreams[lastEv.data.player_id].tokens # <<>>
    /\ store.thinkingStreams[lastEv.data.player_id].tokens = <<>>

\* C9: a thinking_start, thinking_token or thinking_complete for actor A
\* leaves every other actor B as it was: B has an accumulator after the event
\* iff it had one before, with the same text, active flag and parsed action.
C9_OtherActorsUntouched ==
    lastEv.type \in ThinkingEvents =>
        \A b \in Players \ {lastEv.data.player_id} :
            /\ HasStream(store, b) <=> HasStream(prev, b)
            /\ HasStream(prev, b) =>
                  store.thinkingStreams[b] = prev.thinkingStreams[b]

\* A token of one actor has been handled while another actor held text.
C9_Witness ==
    /\ Was("thinking_token")
    /\ HasStream(prev, lastEv.data.player_id)
    /\ \E b \in Players \ {lastEv.data.player_id} :
          /\ HasStream(store, b)
          /\ store.thinkingStreams[b].tokens # <<>>

\* C10: right after a hand_complete or a game_state event the store holds no
\* reasoning accumulator of any actor.
C10_NoAccumulatorSurvivesHandEnd ==
    lastEv.type \in {"hand_complete", "game_state"} =>
        store.thinkingStreams = EmptyRecord

\* A hand_complete has been handled while an actor's accumulator held text.
C10_Witness ==
    /\ Was("hand_complete")
    /\ \E p \in Players :
          HasStream(prev, p) /\ prev.thinkingStreams[p].tokens # <<>>
    /\ store.thinkingStreams = EmptyRecord

\* The two waiting modes as the client shows them.
TimerRunning(state) == state.timer # None /\ ~state.timer[1].isExpired
StreamActive(state) ==
    \E p \in DOMAIN state.thinkingStreams : state.thinkingStreams[p].isActive

\* C11: in the client's view of a session driven by the server's protocol,
\* with the human's moves interleaved, there is never at once a running
\* (non-null, non-expired) timer and an active reasoning stream.
C11_TimerAndReasoningExclusive == ~(TimerRunning(store) /\ StreamActive(store))

\* C12: whatever tokens are fed, what has been broadcast followed by what is
\* still buffered is the text fed so far, no payload is empty, and after a
\* flush the broadcast payloads alone, in order, are the text fed.
C12_BatchingIsLossless ==
    /\ Flatten(batchLog.received) \o batcher.buffer = Flatten(batchLog.fed)
    /\ \A i \in DOMAIN batchLog.received : batchLog.received[i] # <<>>
    /\ batchLog.last = "flush" =>
          Flatten(batchLog.received) = Flatten(batchLog.fed)

\* Tokens have been fed and flushed at the end; the payloads are not the
\* tokens one by one.
C12_Witness ==
    /\ batchLog.last = "flush"
    /\ Len(batchLog.fed) >= 3
    /\ Len(batchLog.received) >= 2
    /\ batchLog.received # batchLog.fed
    /\ <<>> \in {batchLog.fed[i] : i \in DOMAIN batchLog.fed}
    /\ Flatten(batchLog.received) = Flatten(batchLog.fed)

\* C13: no buffered character stays unflushed for longer than max_delay_ms,
\* also when no further token arrives after it.
C13_BufferedNoLongerThanMaxDelay ==
    batchLog.oldest # None => clock - batchLog.oldest[1] <= max_delay_ms

\* C14: no get_session returns a session whose teardown has begun (or that
\* is not yet fully constructed).
C14_LookupNeverSeesTeardown ==
    (got # None /\ got[1].session # None) => got[1].session[1] = "ready"

\* The hook holds a socket that is connecting or open.
HasLiveSocket ==
    wsRef # None /\ sockets[wsRef[1]] \in {"CONNECTING", "OPEN"}

\* C15: whenever the connection has been lost uncleanly, the client
\* eventually holds a connecting or open WebSocket again.
C15_LostConnectionIsReestablished ==
    [](Was("close") /\ ~lastEv.data.wasClean => <>HasLiveSocket)

\* C16: every player_action the user interface has passed to sendAction,
\* from a button of the panel or from the F and C keys, was passed in a state
\* where isMyTurn was true and the available actions were known; and the
\* action panel is mounted only while isMyTurn is true.
C16_ActionsOnlyOnMyTurn ==
    /\ Was("sendAction") => (prev.isMyTurn /\ prev.availableActions # None)
    /\ panel # None => store.isMyTurn

\* A raise confirmed on the panel has been sent on the human's turn.
C16_Witness ==
    /\ Was("sendAction")
    /\ lastEv.data.sent
    /\ lastEv.data.message[1].action_type = "raise"
    /\ prev.isMyTurn
    /\ ~store.isMyTurn

\* The move type is one the available actions mark legal.
MarkedLegal(availableActions, actionType) ==
    CASE actionType = "fold" -> availableActions.can_fold
      [] actionType = "check" -> availableActions.can_check
      [] actionType = "call" -> availableActions.can_call
      [] actionType \in {"raise", "all_in"} -> availableActions.can_raise
      [] OTHER -> FALSE

\* C17: every player_action the client has emitted from a button or a
\* keyboard shortcut is one the available actions held at that moment mark
\* legal.
C17_EmittedActionsAreLegal ==
    Was("sendAction") =>
        /\ prev.availableActions # None
        /\ MarkedLegal(prev.availableActions[1],
                       lastEv.data.message[1].action_type)

\* C18: once the hook has handled session_complete with the table on screen,
\* the client is in a session-complete state: the Game Over overlay, with its
\* Play Again button, is shown.
C18_SessionCompleteShowsOverlay ==
    (Was("session_complete") /\ prev.isConnected /\ prev.gameState # None)
        => OverlayShown

\* The human is the current actor of the latest state event.
HumanToAct ==
    store.gameState # None /\ store.gameState[1].current_actor = Some(0)

\* C19: when an error event has been handled after the human's move was
\* sent, with the human still the current actor, the move controls are
\* enabled and the countdown is shown, so that another move can be submitted.
C19_RejectedMoveRePrompts ==
    (/\ Was("error")
     /\ store.isConnected
     /\ up # <<>>
     /\ up[Len(up)].type = "player_action"
     /\ HumanToAct)
        => /\ store.isMyTurn
           /\ store.availableActions # None
           /\ TimerRunning(store)

\* C20: a thinking_token for an actor without accumulator is not dropped:
\* after it the actor has an active stream whose text is the token.
C20_TokenCreatesMissingStream ==
    (Was("thinking_token") /\ ~HasStream(prev, lastEv.data.player_id)) =>
        LET p == lastEv.data.player_id IN
        /\ HasStream(store, p)
        /\ store.thinkingStreams[p].isActive
        /\ store.thinkingStreams[p].tokens = lastEv.data.token

Live == { ws \in DOMAIN sockets : sockets[ws] \in {"CONNECTING", "OPEN"} }

\* C21: at no time do two WebSockets exist that the hook has not closed
\* (and that have not ended otherwise): no effect run creates a socket while
\* an earlier one is still connecting or open.
C21_AtMostOneLiveSocket == Cardinality(Live) <= 1

\* C22: the close event of a socket that is no longer the hook's current one
\* leaves the reference to the current socket and its isConnected alone.
C22_StaleCloseIsHarmless ==
    (/\ Was("close")
     /\ sockets[Len(sockets)] \in {"CONNECTING", "OPEN"}
     /\ lastEv.data.ws # Len(sockets))
        => /\ wsRef = Some(Len(sockets))
           /\ store.isConnected = prev.isConnected

\* C23: a sendAction whose message was not transmitted (no socket, or one
\* not open) leaves isMyTurn, availableActions and the timer as they were.
C23_UnsentMoveKeepsTurn ==
    (Was("sendAction") /\ ~lastEv.data.sent) =>
        /\ store.isMyTurn = prev.isMyTurn
        /\ store.availableActions = prev.availableActions
        /\ store.timer = prev.timer

\* C24: every raise the action panel submits carries an amount between
\* min_raise and max_raise of the available actions it was made under.
C24_RaiseAmountWithinRange ==
    (/\ Was("sendAction")
     /\ lastEv.data.message[1].action_type = "raise")
        => /\ prev.availableActions # None
           /\ lastEv.data.message[1].amount # None
           /\ lastEv.data.message[1].amount[1] >= prev.availableActions[1].min_raise
           /\ lastEv.data.message[1].amount[1] <= prev.availableActions[1].max_raise

\* C25: between two consecutive turn-granting events (your_turn, a full
\* state or a delta with current_actor 0) the client transmits at most one
\* player_action, whatever keys and buttons are pressed and whatever timer
\* events arrive in between.
C25_AtMostOneMovePerGrant == moves <= 1

\* A move went out, a timer_start arrived after it, and a further key press
\* was handled without sending anything.
C25_Witness ==
    /\ moves = 1
    /\ Was("keydown")
    /\ store.timer # None
    /\ ~store.isMyTurn

====
